---- MODULE Spec2Model ----
(***************************************************************************)
(* WebAOA flask server (src/webaoa/server.py).                             *)
(*                                                                         *)
(* The server registers three view functions on a Flask application:      *)
(*   Static  /webaoa/static/<path:path>                                    *)
(*   App     /webaoa/app.js                                                *)
(*   Root    /webaoa (strict_slashes=False) and /webaoa/<path:path>        *)
(* Its inputs are the two flags of the env module, the private node       *)
(* config of ndb_models, and the files below the application root.        *)
(*                                                                         *)
(* A request is the list of path segments after "/webaoa", whether the    *)
(* URL ends in a slash, and which cache/range headers it carries.  A      *)
(* worker thread takes a request when it is idle, runs the view function  *)
(* to completion (each view function reads the shared state at most once: *)
(* Root's single call of GetPrivateNodeConfig) and then sends the reply.  *)
(***************************************************************************)
EXTENDS Naturals, Sequences, FiniteSets

VARIABLES
  IS_DEV_MODE,      \* env.IS_DEV_MODE
  IS_GOOGLE,        \* env.IS_GOOGLE
  metrics_enabled,  \* ndb_models.GetPrivateNodeConfig().metrics_enabled
  ndb_up,           \* whether GetPrivateNodeConfig() returns (TRUE) or raises
  disk,             \* the regular files below the application root
  out               \* per worker thread: Idle, or the reply it has produced

vars == <<IS_DEV_MODE, IS_GOOGLE, metrics_enabled, ndb_up, disk, out>>

\* ------------------------------------------------------------------ bounds
\* Longest request path, in segments after "/webaoa".
MaxPathLen == 3
\* Longest request path in the two-thread specification.
MaxConcLen == 2

\* --------------------------------------------------------------- constants
TRACKING_ID == "G-XRN33KLKER"
INDEX_TEMPLATE == "index.html"
DEV_SCRIPT == "dev_sources.concat.js"
COMPILED_SCRIPT == "compiled.js"

\* os.path.dirname(__file__): the directory of server.py.
RootPath == <<"webaoa">>
\* APP.static_folder: static_folder='static' below root_path.
StaticFolder == RootPath \o <<"static">>

\* The segments request paths are built from.
Segments == {"static", "app.js", "..", "index.html"}

Threads == {1, 2}
MainThread == 1

\* Request headers: none, matching cache validators (If-None-Match /
\* If-Modified-Since), or a Range header.
Headers == {"plain", "validators", "range"}

SeqsUpTo(n) == UNION {[1..k -> Segments] : k \in 0..n}

Requests ==
  [segs : SeqsUpTo(MaxPathLen), slash : BOOLEAN, hdr : Headers]

ConcRequests ==
  [segs : SeqsUpTo(MaxConcLen), slash : {FALSE}, hdr : {"plain"}]

\* Files every deployment holds, and files a deployment may hold.
DeployedFiles == {RootPath \o <<INDEX_TEMPLATE>>}
OptionalFiles ==
  {RootPath \o <<COMPILED_SCRIPT>>, RootPath \o <<DEV_SCRIPT>>,
   StaticFolder \o <<"app.js">>}

Idle == [handler |-> "idle"]

\* ----------------------------------------------------------------- routing
\* Whether a rule of the URL map matches the request.  A <path:path>
\* converter matches one or more characters not starting with a slash.
Matches(endpoint, req) ==
  CASE endpoint = "Static" -> Len(req.segs) >= 2 /\ req.segs[1] = "static"
    [] endpoint = "App"    -> req.segs = <<"app.js">> /\ ~req.slash
    [] endpoint = "Root"   -> TRUE

\* A URL map that tries the catch-all rule first.
RulePriorityCatchAllFirst(endpoint) ==
  CASE endpoint = "Root"   -> 0
    [] endpoint = "App"    -> 1
    [] endpoint = "Static" -> 2

\* The order in which the URL map tries the rules: rules with more static
\* parts go before rules that are all converter.
RulePriority(endpoint) ==
  CASE endpoint = "App"    -> 0
    [] endpoint = "Static" -> 1
    [] endpoint = "Root"   -> 2

Endpoints == {"Static", "App", "Root"}

\* The view function a request is dispatched to: the first matching rule.
\* Rules of equal priority are tried in the order of their registration
\* (Static, App, Root).
Dispatch(req) ==
  LET m == {e \in Endpoints : Matches(e, req)}
      best == {e \in m : \A f \in m : RulePriority(e) <= RulePriority(f)}
  IN  IF "Static" \in best THEN "Static"
      ELSE IF "App" \in best THEN "App"
      ELSE "Root"

\* ------------------------------------------------------------- file serving
\* posixpath.normpath of a relative path: "a/.." collapses, a leading ".."
\* stays.
RECURSIVE NormPath(_, _)
NormPath(done, rest) ==
  IF rest = <<>> THEN done
  ELSE IF rest[1] = ".." /\ done # <<>> /\ done[Len(done)] # ".."
       THEN NormPath(SubSeq(done, 1, Len(done) - 1), Tail(rest))
       ELSE NormPath(Append(done, rest[1]), Tail(rest))

\* The file the operating system opens for an absolute path: ".." steps
\* to the parent directory, and the parent of "/" is "/".
RECURSIVE Resolve(_, _)
Resolve(done, rest) ==
  IF rest = <<>> THEN done
  ELSE IF rest[1] = ".."
       THEN Resolve(IF done = <<>> THEN <<>>
                    ELSE SubSeq(done, 1, Len(done) - 1), Tail(rest))
       ELSE Resolve(Append(done, rest[1]), Tail(rest))

\* A join that normalises the path and refuses nothing.
SafeJoinUnchecked(directory, path) ==
  [ok |-> TRUE, path |-> directory \o NormPath(<<>>, path)]

\* safe_join(directory, path), as send_from_directory calls it: the path is
\* normalised and refused when it still leaves the directory.
SafeJoin(directory, path) ==
  LET n == NormPath(<<>>, path)
  IN  IF n # <<>> /\ n[1] = ".."
      THEN [ok |-> FALSE, path |-> <<>>]
      ELSE [ok |-> TRUE, path |-> directory \o n]

\* A reply.  Every reply has the same fields; those that do not apply hold
\* "", <<>>, {} or FALSE.  config_read records what Root's call of
\* GetPrivateNodeConfig did: "not_called", "raised", "on" or "off".
\* metrics_at and ndb_at are history fields, set when the reply is produced:
\* the node's metrics setting and the datastore's state at that moment.
Reply(handler, req, status, file, body) ==
  [handler |-> handler, req |-> req, status |-> status, file |-> file,
   body |-> body, template |-> "", context_keys |-> {},
   analytics_tracking_id |-> "", is_google |-> FALSE,
   config_read |-> "not_called", metrics_at |-> FALSE, ndb_at |-> FALSE]

\* send_file(path, conditional=...): with conditional set, a request whose
\* validators match gets 304 and a Range request gets 206; without it the
\* whole file is sent.
SendFile(handler, req, file, conditional) ==
  IF conditional /\ req.hdr = "validators"
  THEN Reply(handler, req, 304, file, "empty")
  ELSE IF conditional /\ req.hdr = "range"
  THEN Reply(handler, req, 206, file, "partial")
  ELSE Reply(handler, req, 200, file, "full")

\* flask.send_from_directory(directory, path, conditional=...): NotFound
\* when safe_join refuses the path or the result is no regular file.
SendFromDirectory(handler, req, directory, path, conditional) ==
  LET j == SafeJoin(directory, path)
      file == Resolve(<<>>, j.path)
  IN  IF j.ok /\ file \in disk
      THEN SendFile(handler, req, file, conditional)
      ELSE Reply(handler, req, 404, <<>>, "error")

\* ---------------------------------------------------------- view functions
\* Static with conditional left at its default.
StaticConditional(req) ==
  SendFromDirectory("Static", req, StaticFolder, Tail(req.segs), TRUE)

\* Static(path): flask.send_from_directory(APP.static_folder, path,
\* conditional=False).
StaticView(req) ==
  SendFromDirectory("Static", req, StaticFolder, Tail(req.segs), FALSE)

\* The two scripts the wrong way round.
ScriptSwapped == IF IS_DEV_MODE THEN COMPILED_SCRIPT ELSE DEV_SCRIPT

\* script = 'dev_sources.concat.js' if env.IS_DEV_MODE else 'compiled.js'
Script == IF IS_DEV_MODE THEN DEV_SCRIPT ELSE COMPILED_SCRIPT

\* App(): flask.send_from_directory(APP.root_path, script, conditional=False)
AppView(req) ==
  SendFromDirectory("App", req, RootPath, <<Script>>, FALSE)

\* A condition that calls GetPrivateNodeConfig first.
ConfigReadEager ==
  IF ~ndb_up THEN "raised"
  ELSE IF metrics_enabled THEN "on" ELSE "off"

\* What the condition of Root's if statement does with the node config:
\* "not env.IS_DEV_MODE and ..." calls GetPrivateNodeConfig only when
\* IS_DEV_MODE is false.
ConfigRead ==
  IF IS_DEV_MODE THEN "not_called"
  ELSE IF ~ndb_up THEN "raised"
  ELSE IF metrics_enabled THEN "on" ELSE "off"

\* An id that follows the metrics setting alone.
AnalyticsIdMetricsOnly(read) ==
  IF metrics_enabled THEN TRACKING_ID ELSE ""

\* analytics_tracking_id: '' unless the condition holds.
AnalyticsId(read) == IF read = "on" THEN TRACKING_ID ELSE ""

\* The flag inverted.
IsGoogleNegated == ~IS_GOOGLE

\* is_google=env.IS_GOOGLE
IsGoogle == IS_GOOGLE

\* A Root that sets the id on the landing page only.
RootViewLandingOnly(req) ==
  LET read == ConfigRead
  IN  IF read = "raised"
      THEN [Reply("Root", req, 500, <<>>, "error") EXCEPT
              !.config_read = read]
      ELSE [Reply("Root", req, 200, <<>>, "html") EXCEPT
              !.template = INDEX_TEMPLATE,
              !.context_keys = {"analytics_tracking_id", "is_google"},
              !.analytics_tracking_id =
                 IF req.segs = <<>> THEN AnalyticsId(read) ELSE "",
              !.is_google = IsGoogle,
              !.config_read = read]

\* A Root that reuses the id of a page another thread still holds.
RootViewMemo(req) ==
  LET read == ConfigRead
      old == {v \in Threads : out[v].handler = "Root" /\ out[v].status = 200}
  IN  IF read = "raised"
      THEN [Reply("Root", req, 500, <<>>, "error") EXCEPT
              !.config_read = read]
      ELSE [Reply("Root", req, 200, <<>>, "html") EXCEPT
              !.template = INDEX_TEMPLATE,
              !.context_keys = {"analytics_tracking_id", "is_google"},
              !.analytics_tracking_id =
                 IF old # {}
                 THEN out[CHOOSE v \in old : TRUE].analytics_tracking_id
                 ELSE AnalyticsId(read),
              !.is_google = IsGoogle,
              !.config_read = read]

\* Root(path): the path is deleted unread; an exception of
\* GetPrivateNodeConfig leaves the view function (an error reply).
RootView(req) ==
  LET read == ConfigRead
  IN  IF read = "raised"
      THEN [Reply("Root", req, 500, <<>>, "error") EXCEPT
              !.config_read = read]
      ELSE [Reply("Root", req, 200, <<>>, "html") EXCEPT
              !.template = INDEX_TEMPLATE,
              !.context_keys = {"analytics_tracking_id", "is_google"},
              !.analytics_tracking_id = AnalyticsId(read),
              !.is_google = IsGoogle,
              !.config_read = read]

\* ----------------------------------------------------------------- actions
TypeOK ==
  /\ IS_DEV_MODE \in BOOLEAN /\ IS_GOOGLE \in BOOLEAN
  /\ metrics_enabled \in BOOLEAN /\ ndb_up \in BOOLEAN
  /\ disk \subseteq DeployedFiles \cup OptionalFiles

Init ==
  /\ IS_DEV_MODE \in BOOLEAN
  /\ IS_GOOGLE \in BOOLEAN
  /\ metrics_enabled \in BOOLEAN
  /\ ndb_up \in BOOLEAN
  /\ disk \in {DeployedFiles \cup s : s \in SUBSET OptionalFiles}
  /\ out = [w \in Threads |-> Idle]

\* No view function assigns to the configuration or writes a file.
Frame == UNCHANGED <<IS_DEV_MODE, IS_GOOGLE, metrics_enabled, ndb_up, disk>>

\* The history fields of a reply.
Stamp(reply) ==
  [reply EXCEPT !.metrics_at = metrics_enabled, !.ndb_at = ndb_up]

Static(w, reqs) ==
  /\ out[w] = Idle
  /\ \E req \in reqs :
       /\ Dispatch(req) = "Static"
       /\ out' = [out EXCEPT ![w] = Stamp(StaticView(req))]
  /\ Frame

App(w, reqs) ==
  /\ out[w] = Idle
  /\ \E req \in reqs :
       /\ Dispatch(req) = "App"
       /\ out' = [out EXCEPT ![w] = Stamp(AppView(req))]
  /\ Frame

\* A Root that stores a default node config.
RootWritesConfig(w, reqs) ==
  /\ out[w] = Idle
  /\ \E req \in reqs :
       /\ Dispatch(req) = "Root"
       /\ out' = [out EXCEPT ![w] = Stamp(RootView(req))]
  /\ metrics_enabled' = FALSE
  /\ UNCHANGED <<IS_DEV_MODE, IS_GOOGLE, ndb_up, disk>>

Root(w, reqs) ==
  /\ out[w] = Idle
  /\ \E req \in reqs :
       /\ Dispatch(req) = "Root"
       /\ out' = [out EXCEPT ![w] = Stamp(RootView(req))]
  /\ Frame

\* The reply leaves the view function and the thread is free again.
Send(w) ==
  /\ out[w] # Idle
  /\ out' = [out EXCEPT ![w] = Idle]
  /\ Frame

\* The node's metrics setting is changed (outside this file).
SetMetricsEnabled ==
  /\ metrics_enabled' = ~metrics_enabled
  /\ UNCHANGED <<IS_DEV_MODE, IS_GOOGLE, ndb_up, disk, out>>

\* The datastore behind GetPrivateNodeConfig goes away or comes back.
SetNdbUp ==
  /\ ndb_up' = ~ndb_up
  /\ UNCHANGED <<IS_DEV_MODE, IS_GOOGLE, metrics_enabled, disk, out>>

Next ==
  \/ Static(MainThread, Requests)
  \/ App(MainThread, Requests)
  \/ Root(MainThread, Requests)
  \/ Send(MainThread)
  \/ SetMetricsEnabled
  \/ SetNdbUp

Spec == Init /\ [][Next]_vars

\* Two worker threads on a complete deployment.
InitConc ==
  /\ Init
  /\ disk = DeployedFiles \cup OptionalFiles

NextConc ==
  \/ \E w \in Threads : Static(w, ConcRequests)
  \/ \E w \in Threads : App(w, ConcRequests)
  \/ \E w \in Threads : Root(w, ConcRequests)
  \/ \E w \in Threads : Send(w)
  \/ SetMetricsEnabled
  \/ SetNdbUp

SpecConc == InitConc /\ [][NextConc]_vars

\* ------------------------------------------------------------------ claims
Busy == {w \in Threads : out[w] # Idle}
RootReplies == {out[w] : w \in {v \in Busy : out[v].handler = "Root"}}
Rendered == {r \in RootReplies : r.body = "html"}
FileReplies == {out[w] : w \in {v \in Busy : out[v].handler \in {"Static", "App"}}}

\* C1 (as written): the analytics tracking id Root passes to index.html is
\* blank when metrics were disabled and non-blank otherwise, for every
\* combination of IS_DEV_MODE and metrics_enabled.
C1_IdFollowsMetricsAlone ==
  \A r \in Rendered : (r.analytics_tracking_id = "") <=> ~r.metrics_at

\* C1 (amended): the analytics tracking id Root passes to index.html is
\* 'G-XRN33KLKER' exactly when IS_DEV_MODE is false and metrics were
\* enabled, and blank otherwise: in dev mode it is blank even with metrics
\* enabled.
C1_IdFollowsMetricsOutsideDevMode ==
  \A r \in Rendered :
    r.analytics_tracking_id =
      IF ~IS_DEV_MODE /\ r.metrics_at THEN "G-XRN33KLKER" ELSE ""

\* A page rendered in dev mode with metrics enabled: its id is blank.
C1_Witness ==
  \E r \in Rendered :
    IS_DEV_MODE /\ r.metrics_at /\ r.analytics_tracking_id = ""

\* C2: App serves one of two script files chosen by IS_DEV_MODE alone:
\* dev_sources.concat.js in dev mode and compiled.js otherwise, from the
\* application root; it never serves another file, whatever IS_GOOGLE, the
\* metrics setting and the earlier requests are.
C2_ScriptChosenByDevMode ==
  \A r \in FileReplies :
    r.handler = "App" =>
      LET script == IF IS_DEV_MODE THEN <<"webaoa", "dev_sources.concat.js">>
                    ELSE <<"webaoa", "compiled.js">>
      IN  /\ r.req.segs = <<"app.js">>
          /\ r.status = 200 <=> script \in disk
          /\ r.status = 200 => r.file = script
          /\ r.status # 200 => r.status = 404 /\ r.file = <<>>

\* App has served the dev script in dev mode while compiled.js is deployed
\* as well.
C2_Witness ==
  \E r \in FileReplies :
    /\ r.handler = "App" /\ IS_DEV_MODE /\ r.status = 200
    /\ r.file = <<"webaoa", "dev_sources.concat.js">>
    /\ <<"webaoa", "compiled.js">> \in disk

\* The view function the routes name for a request.
Expected(req) ==
  IF Len(req.segs) >= 2 /\ req.segs[1] = "static" THEN "Static"
  ELSE IF req.segs = <<"app.js">> /\ ~req.slash THEN "App"
  ELSE "Root"

C4_StaticStaysInStaticFolder ==
  \A r \in FileReplies :
    r.handler = "Static" =>
      LET target == Resolve(<<>>, <<"webaoa", "static">> \o Tail(r.req.segs))
          inside == /\ Len(target) > 2
                    /\ SubSeq(target, 1, 2) = <<"webaoa", "static">>
      IN  /\ r.status = 200 => inside /\ r.file = target /\ r.file \in disk
          /\ (~inside \/ target \notin disk) =>
               r.status = 404 /\ r.file = <<>> /\ r.body = "error"

\* /webaoa/static/../index.html, which resolves to the deployed template
\* outside the static directory, got an error reply.
C4_Witness ==
  \E r \in FileReplies :
    /\ r.handler = "Static"
    /\ r.req.segs = <<"static", "..", "index.html">>
    /\ <<"webaoa", "index.html">> \in disk
    /\ r.status = 404

\* C5: what Root renders is the template index.html with exactly the two
\* values analytics_tracking_id and is_google; is_google is env.IS_GOOGLE
\* whatever IS_DEV_MODE and the metrics setting are, and
\* analytics_tracking_id is '' or 'G-XRN33KLKER'.
C5_TemplateContext ==
  \A r \in Rendered :
    /\ r.template = "index.html"
    /\ r.context_keys = {"analytics_tracking_id", "is_google"}
    /\ r.is_google = IS_GOOGLE
    /\ r.analytics_tracking_id \in {"", "G-XRN33KLKER"}

\* A page rendered with IS_GOOGLE set, outside dev mode, metrics disabled.
C5_Witness ==
  \E r \in Rendered :
    IS_GOOGLE /\ r.is_google /\ ~IS_DEV_MODE /\ ~r.metrics_at

\* Two replies were produced for the same request under the same
\* configuration (the flags and the files do not change in a behaviour).
SameInputs(q, r) ==
  q.req = r.req /\ q.metrics_at = r.metrics_at /\ q.ndb_at = r.ndb_at

\* C6: serving a request changes neither the configuration nor the files,
\* and the same request under the same configuration gets the same reply,
\* whatever the other thread has served or is serving.
C6_Stateless ==
  /\ [](\A v, w \in Busy : SameInputs(out[v], out[w]) => out[v] = out[w])
  /\ [][(\E w \in Threads : out'[w] # out[w]) =>
          UNCHANGED <<IS_DEV_MODE, IS_GOOGLE, metrics_enabled, ndb_up, disk>>]_vars

\* Both threads hold the reply to the same Root request, produced under the
\* same configuration.
C6_Witness ==
  /\ Busy = Threads
  /\ SameInputs(out[1], out[2])
  /\ out[1].handler = "Root"
  /\ out[1] = out[2]

\* C7: two requests routed to Root under the same configuration get the
\* same template and the same two template values, whatever their paths.
C7_RootIgnoresPath ==
  \A q, r \in RootReplies :
    (q.metrics_at = r.metrics_at /\ q.ndb_at = r.ndb_at) =>
      /\ q.status = r.status
      /\ q.template = r.template
      /\ q.context_keys = r.context_keys
      /\ q.analytics_tracking_id = r.analytics_tracking_id
      /\ q.is_google = r.is_google

\* Root rendered /webaoa and /webaoa/index.html under the same
\* configuration, with the tracking id set.
C7_Witness ==
  \E q, r \in Rendered :
    /\ q.req.segs = <<>> /\ r.req.segs = <<"index.html">>
    /\ q.metrics_at = r.metrics_at /\ q.ndb_at = r.ndb_at
    /\ q.analytics_tracking_id = "G-XRN33KLKER"

\* C8: outside dev mode Root reads the node config on every request, and
\* the id it renders is that of the metrics setting in force at that
\* request, whatever an earlier request rendered.
C8_MetricsReadAnew ==
  \A r \in RootReplies :
    (~IS_DEV_MODE /\ r.ndb_at) =>
      /\ r.config_read = IF r.metrics_at THEN "on" ELSE "off"
      /\ r.analytics_tracking_id = IF r.metrics_at THEN "G-XRN33KLKER" ELSE ""

\* The setting changed between two requests to Root: one reply was
\* rendered with metrics disabled and a blank id, the other with metrics
\* enabled and the tracking id.
C8_Witness ==
  \E q, r \in Rendered :
    /\ ~IS_DEV_MODE
    /\ ~q.metrics_at /\ q.analytics_tracking_id = ""
    /\ r.metrics_at /\ r.analytics_tracking_id = "G-XRN33KLKER"

\* C9: in dev mode Root does not call GetPrivateNodeConfig and renders the
\* page with a blank id even when the call would raise; Root fails only
\* outside dev mode, when the call raised.
C9_DevModeSkipsNodeConfig ==
  \A r \in RootReplies :
    /\ IS_DEV_MODE =>
         /\ r.config_read = "not_called"
         /\ r.body = "html" /\ r.status = 200
         /\ r.analytics_tracking_id = ""
    /\ r.body = "error" =>
         ~IS_DEV_MODE /\ ~r.ndb_at /\ r.config_read = "raised"

\* Root rendered the page in dev mode while GetPrivateNodeConfig would have
\* raised.
C9_Witness ==
  \E r \in RootReplies :
    IS_DEV_MODE /\ ~r.ndb_at /\ r.body = "html" /\ r.config_read = "not_called"

\* C10: Static and App answer a request for an existing file with the whole
\* file, also when the request carries cache validators or a Range header:
\* never not-modified, never partial.
C10_AlwaysFullContent ==
  \A r \in FileReplies :
    /\ r.status \in {200, 404}
    /\ r.status = 200 => r.body = "full" /\ r.file \in disk
    /\ (/\ r.handler = "Static"
        /\ \A i \in 2..Len(r.req.segs) : r.req.segs[i] # ".."
        /\ <<"webaoa">> \o r.req.segs \in disk) => r.status = 200

\* Static sent the whole of an existing file to a request with a Range
\* header.
C10_Witness ==
  \E r \in FileReplies :
    /\ r.handler = "Static" /\ r.req.hdr = "range"
    /\ r.file \in disk /\ r.status = 200 /\ r.body = "full"

====
